---- MODULE Spec2Model ----
(***************************************************************************)
(* hh-cv-updater: the Session Client (class HHUpdater, core.py) and the    *)
(* Command Sequencer (commands update and check, __main__.py).             *)
(*                                                                         *)
(* One run is one of three drivers, chosen in Init:                        *)
(*   mode = "update"  the command update  (update_flow)                    *)
(*   mode = "check"   the command check   (check_flow)                     *)
(*   mode = "client"  any caller of the public methods of HHUpdater, in    *)
(*                    any order (at most MaxOps calls)                     *)
(* The program is sequential; a step ends where the code blocks on the     *)
(* HTTP layer (client.get / client.post) or where control passes between   *)
(* the with block, __exit__ and the except clause.                         *)
(*                                                                         *)
(* The HTTP layer (httpx.Client built with follow_redirects = True) is the *)
(* environment: every request it is given ends in a transport fault, or in *)
(* a final response after it has followed at most MaxRedirects redirects;  *)
(* one redirect more raises a fault (httpx: TooManyRedirects).             *)
(***************************************************************************)
EXTENDS Integers, Sequences, FiniteSets, TLC

VARIABLES
  mode,          \* which driver runs: "update", "check" or "client"
  pc,            \* where the run stands
  arg_url,       \* the base URL the driver passes to HHUpdater ( ... )
  cv_ids,        \* the argument of update
  base_url,      \* HHUpdater.base_url
  client,        \* HHUpdater.client: "none" (not built), "open", "closed"
  xsrf,          \* HHUpdater.xsrf
  caller,        \* who called get_xsrf: "auth" or "top"
  cur,           \* the client method in progress (or the last one called)
  ret,           \* what the last finished client method returned
  hops,          \* redirects the HTTP layer followed for the request in flight
  resp,          \* the last final response the HTTP layer returned
  i,             \* update: position in cv_ids of the next id (1-based)
  success_count, \* update: success_count
  out,           \* the reports printed so far
  pending,       \* the exception in flight: "none", "exit" (typer.Exit), "fault"
  status,        \* -1 while running, then the exit status 0 or 1;
                 \* 2: the run ended with an exception nobody caught
  nops,          \* client mode: methods called so far
  reqs,          \* history: requests the client issued, by kind
  calls,         \* history: client methods called, by name
  attempted,     \* history: the ids update_cv was called with, in order
  ok_touches,    \* history: touch requests answered with final status 200
  faulted,       \* history: the HTTP layer or the constructor raised
  releases,      \* history: how often client.close ( ) ran
  late_reqs      \* history: requests issued while the connection was not open

vars == <<mode, pc, arg_url, cv_ids, base_url, client, xsrf, caller, cur, ret,
          hops, resp, i, success_count, out, pending, status, nops, reqs,
          calls, attempted, ok_touches, faulted, releases, late_reqs>>

\* ------------------------------------------------------------------ bounds
MaxCvs == 2
MaxOps == 3
MaxUrlLen == 2
MaxRedirects == 1

\* ------------------------------------------------------- program constants
\* xsrf [ :10 ] in the success report of check
PrefixLen == 10

\* ------------------------------------------------------------ Optional[str]
\* A str is a sequence of characters; Optional[str] is None or a str.
None == [some |-> FALSE, val |-> <<>>]
Some(s) == [some |-> TRUE, val |-> s]

\* Python truth value of an Optional[str]: None and '' are false.
Truthy(x) == x.some /\ x.val # <<>>

\* x or '' (the _xsrf form field of auth)
OrEmpty(x) == IF Truthy(x) THEN x.val ELSE <<>>

\* Mutant: the whole string instead of its first n characters.
Take_Whole(s, n) == s

\* s [ :n ]
Take(s, n) == SubSeq(s, 1, IF Len(s) < n THEN Len(s) ELSE n)

\* Mutant: only one trailing slash is removed.
rstrip_One(s) ==
  IF s # <<>> /\ s[Len(s)] = "/" THEN SubSeq(s, 1, Len(s) - 1) ELSE s

\* str.rstrip ( '/' )
RECURSIVE rstrip(_)
rstrip(s) ==
  IF s # <<>> /\ s[Len(s)] = "/" THEN rstrip(SubSeq(s, 1, Len(s) - 1)) ELSE s

\* ------------------------------------------------------------------ inputs
RECURSIVE SeqsUpTo(_, _)
SeqsUpTo(S, n) ==
  IF n = 0 THEN {<<>>}
  ELSE LET shorter == SeqsUpTo(S, n - 1)
       IN shorter \cup {Append(s, x) : s \in {t \in shorter : Len(t) = n - 1}, x \in S}

UrlChars == {"h", "/"}
Urls == SeqsUpTo(UrlChars, MaxUrlLen)

CvIds == {"a", "b"}
\* typer.Argument ( ... ): a required list, so at least one id
CvIdLists == SeqsUpTo(CvIds, MaxCvs) \ {<<>>}

\* values of the _xsrf cookie of a response: absent, empty, a token shorter
\* than the prefix check shows and one longer (PrefixLen + 1 characters)
Tok1 == <<"t">>
Tok2 == <<"a", "b", "c", "d", "e", "f", "g", "h", "i", "j", "k">>
Cookies == {None, Some(<<>>), Some(Tok1), Some(Tok2)}

\* the base URLs update is run with (the option --url, "_base_url or None")
UpdateUrls == {<<"h">>, <<"h", "/">>}

\* the base URLs a client caller builds its client with (check covers Urls)
ClientUrls == {<<"h">>, <<"h", "/">>}

\* Status codes the HTTP layer follows when the response has a Location header
FollowedCodes == {301, 302, 303, 307, 308}
Statuses == {200, 302, 403, 500}

\* A final response of the HTTP layer: its status, whether it has a Location
\* header, and the value of its _xsrf cookie. A response with a followed
\* code and a Location header is never final: the HTTP layer follows it.
Response(s, l, c) == [status |-> s, location |-> l, cookie |-> c]
NoResponse == Response(0, FALSE, None)
Redirect == Response(302, TRUE, None)
GetResponses ==
  {Response(s, FALSE, c) : s \in {200, 500}, c \in Cookies} \cup {Redirect}
PostResponses ==
  {Response(s, FALSE, None) : s \in Statuses}
    \cup {Response(200, FALSE, Some(Tok2)), Redirect}

\* httpx.Client ( ... , follow_redirects = True )
follow_redirects == TRUE

\* The HTTP layer follows r instead of returning it.
Followed(r) == follow_redirects /\ r.status \in FollowedCodes /\ r.location

\* ------------------------------------------------------------- records
Zero3 == [get |-> 0, login |-> 0, touch |-> 0]
NoCalls == [get_xsrf |-> 0, auth |-> 0, update_cv |-> 0]

\* A client method in progress: its name, its argument, the token cached
\* when it was called, the requests it has issued, the token it sent, the
\* GETs it had issued when it sent the login POST, and the status of the
\* server's first answer to its last request (0: none yet).
Op(name, id, tok) ==
  [op |-> name, id |-> id, tok0 |-> tok, sent |-> Zero3, sent_tok |-> None,
   gets_at_login |-> 0, first |-> 0]
NoOp == Op("none", "", None)

\* A return value: the method, a bool (auth, update_cv), a token (get_xsrf)
Ret(name, ok, tok) == [op |-> name, ok |-> ok, tok |-> tok]
NoRet == Ret("none", FALSE, None)

\* A printed report
Report(msg, id, tok, n, total) ==
  [msg |-> msg, id |-> id, tok |-> tok, n |-> n, total |-> total]
Msg(msg) == Report(msg, "", <<>>, 0, 0)

Bump(r, k) == [r EXCEPT ![k] = @ + 1]

\* ------------------------------------------------------------------ Init
Init ==
  /\ mode \in {"update", "check", "client"}
  /\ arg_url \in CASE mode = "update" -> {None} \cup {Some(u) : u \in UpdateUrls}
                   [] mode = "check" -> {Some(u) : u \in Urls}
                   [] OTHER -> {Some(u) : u \in ClientUrls}
  /\ cv_ids \in IF mode = "update" THEN CvIdLists ELSE {<<>>}
  /\ pc = "start"
  /\ base_url = None
  /\ client = "none"
  /\ xsrf = None
  /\ caller = "top"
  /\ cur = NoOp
  /\ ret = NoRet
  /\ hops = 0
  /\ resp = NoResponse
  /\ i = 1
  /\ success_count = 0
  /\ out = <<>>
  /\ pending = "none"
  /\ status = -1
  /\ nops = 0
  /\ reqs = Zero3
  /\ calls = NoCalls
  /\ attempted = <<>>
  /\ ok_touches = 0
  /\ faulted = FALSE
  /\ releases = 0
  /\ late_reqs = 0

\* --------------------------------------------------------- HHUpdater
inputs == <<mode, arg_url, cv_ids>>
session == <<base_url, client, xsrf>>
loopvars == <<i, success_count, attempted>>

InFlight == pc \in {"wait_get", "wait_login", "wait_touch"}
Responses == IF pc = "wait_get" THEN GetResponses ELSE PostResponses

\* the connection is open when a request is issued, or the request is late
Late == IF client = "open" THEN 0 ELSE 1

\* cur after its first answer s has arrived
Answered(s) == IF hops = 0 THEN [cur EXCEPT !.first = s] ELSE cur

\* __init__ and __enter__: with HHUpdater ( base_url ) as updater.
\* base_url = None (update run with an empty --url) makes None.rstrip raise
\* inside the try block, before the with block is entered.
Construct ==
  /\ pc = "start"
  /\ IF arg_url.some
     THEN /\ base_url' = Some(rstrip(arg_url.val))
          /\ client' = "open"
          /\ xsrf' = None
          /\ pc' = CASE mode = "update" -> "call_auth"
                     [] mode = "check" -> "call_get"
                     [] OTHER -> "idle"
          /\ UNCHANGED <<pending, faulted>>
     ELSE /\ pending' = "fault"
          /\ faulted' = TRUE
          /\ pc' = "except"
          /\ UNCHANGED session
  /\ UNCHANGED <<inputs, caller, cur, ret, hops, resp, loopvars, out, status,
                 nops, reqs, calls, ok_touches, releases, late_reqs>>

\* A caller in client mode may call a method while it has calls left.
ClientMayCall == mode = "client" /\ pc = "idle" /\ nops < MaxOps
Counted == IF mode = "client" THEN nops + 1 ELSE nops

\* get_xsrf up to client.get ( ... ), called by check or by a client caller
GetXsrfBegin ==
  /\ (mode = "check" /\ pc = "call_get") \/ ClientMayCall
  /\ cur' = [Op("get_xsrf", "", xsrf) EXCEPT !.sent.get = 1]
  /\ calls' = Bump(calls, "get_xsrf")
  /\ reqs' = Bump(reqs, "get")
  /\ late_reqs' = late_reqs + Late
  /\ caller' = "top"
  /\ hops' = 0
  /\ nops' = Counted
  /\ pc' = "wait_get"
  /\ UNCHANGED <<inputs, session, ret, resp, loopvars, out, pending, status,
                 ok_touches, faulted, releases>>

\* Mutant: auth fetches a token on every call.
NeedsFetch_Always(x) == TRUE

\* The guard of auth: if not self.xsrf : self.get_xsrf ( )
NeedsFetch(x) == ~Truthy(x)

\* auth up to its first request: if not self.xsrf the GET of get_xsrf,
\* otherwise the login POST
AuthBegin ==
  /\ (mode = "update" /\ pc = "call_auth") \/ ClientMayCall
  /\ IF NeedsFetch(xsrf)
     THEN /\ cur' = [Op("auth", "", xsrf) EXCEPT !.sent.get = 1]
          /\ calls' = Bump(Bump(calls, "auth"), "get_xsrf")
          /\ reqs' = Bump(reqs, "get")
          /\ caller' = "auth"
          /\ pc' = "wait_get"
     ELSE /\ cur' = [Op("auth", "", xsrf) EXCEPT !.sent.login = 1,
                        !.sent_tok = Some(OrEmpty(xsrf))]
          /\ calls' = Bump(calls, "auth")
          /\ reqs' = Bump(reqs, "login")
          /\ caller' = "top"
          /\ pc' = "wait_login"
  /\ late_reqs' = late_reqs + Late
  /\ hops' = 0
  /\ nops' = Counted
  /\ UNCHANGED <<inputs, session, ret, resp, loopvars, out, pending, status,
                 ok_touches, faulted, releases>>

\* An exception leaves the client method in progress. HHUpdater has no try
\* block: in a flow the exception reaches the with block, whose __exit__
\* runs next; a client caller receives it.
Raise ==
  /\ faulted' = TRUE
  /\ pending' = "fault"
  /\ IF mode = "client"
     THEN pc' = "done" /\ status' = 2
     ELSE pc' = "exit_ctx" /\ UNCHANGED status
  /\ UNCHANGED <<inputs, session, caller, cur, ret, hops, resp, loopvars, out,
                 nops, reqs, calls, ok_touches, releases, late_reqs>>

\* The HTTP layer: the server answers the request in flight with a redirect
\* and the layer follows it.
HttpRedirect ==
  /\ InFlight
  /\ hops < MaxRedirects
  /\ \E r \in Responses :
       /\ Followed(r)
       /\ cur' = Answered(r.status)
  /\ hops' = hops + 1
  /\ UNCHANGED <<inputs, session, caller, ret, resp, loopvars, out, pending,
                 status, nops, reqs, calls, ok_touches, faulted, releases,
                 late_reqs, pc>>

\* The HTTP layer: one redirect too many raises.
HttpTooManyRedirects ==
  /\ InFlight
  /\ hops = MaxRedirects
  /\ \E r \in Responses : Followed(r)
  /\ Raise

\* The HTTP layer: a transport fault (network, TLS, timeout) raises.
HttpFault ==
  /\ InFlight
  /\ Raise

\* Mutant: auth accepts every status below 400.
AuthResult_Below400(r) == r.status < 400

\* response.status_code == 200 in auth
AuthResult(r) == r.status = 200

\* Mutant: update_cv accepts every status below 400.
UpdateResult_Below400(r) == r.status < 400

\* response.status_code == 200 in update_cv
UpdateResult(r) == r.status = 200

\* Mutant: get_xsrf keeps the cached token when the response has no cookie.
StoredToken_Keep(old, r) == IF r.cookie.some THEN r.cookie ELSE old

\* The token get_xsrf stores: response.cookies.get ( '_xsrf' )
StoredToken(old, r) == r.cookie

\* Mutant: check reports success whatever get_xsrf returned.
CheckGate_Always(tok) == TRUE

\* check: if xsrf : (the success report) else : (the failure report, Exit)
CheckGate(tok) == Truthy(tok)

\* get_xsrf from the final response of its GET to its return, and then
\*   called by auth:  auth up to its client.post ( ... )
\*   called by check: check up to the end of its with block
GetXsrfReturn(r) ==
  /\ pc = "wait_get"
  /\ r \in GetResponses
  /\ ~Followed(r)
  /\ xsrf' = StoredToken(xsrf, r)
  /\ resp' = r
  /\ ret' = Ret("get_xsrf", Truthy(xsrf'), xsrf')
  /\ IF caller = "auth"
     THEN /\ cur' = [cur EXCEPT !.sent.login = 1,
                        !.sent_tok = Some(OrEmpty(xsrf')),
                        !.gets_at_login = cur.sent.get,
                        !.first = 0]
          /\ reqs' = Bump(reqs, "login")
          /\ late_reqs' = late_reqs + Late
          /\ hops' = 0
          /\ pc' = "wait_login"
          /\ UNCHANGED <<out, pending>>
     ELSE /\ cur' = Answered(r.status)
          /\ UNCHANGED <<reqs, late_reqs, hops>>
          /\ IF mode = "check"
             THEN /\ out' = Append(out,
                      IF CheckGate(ret'.tok)
                      THEN Report("check_ok", "", Take(ret'.tok.val, PrefixLen), 0, 0)
                      ELSE Msg("check_fail"))
                  /\ pending' = IF CheckGate(ret'.tok) THEN "none" ELSE "exit"
                  /\ pc' = "exit_ctx"
             ELSE /\ pc' = "idle"
                  /\ UNCHANGED <<out, pending>>
  /\ UNCHANGED <<inputs, base_url, client, caller, loopvars, status, nops,
                 calls, ok_touches, faulted, releases>>

\* Mutant: update goes on after a failed auth.
AuthGate_Ignored(ok) == TRUE

\* update: if not auth_success : (the error report, Exit); True goes on
AuthGate(ok) == ok

\* auth from the final response of the login POST to its return, and then
\* update up to its for loop
AuthReturn(r) ==
  /\ pc = "wait_login"
  /\ r \in PostResponses
  /\ ~Followed(r)
  /\ resp' = r
  /\ ret' = Ret("auth", AuthResult(r), xsrf)
  /\ cur' = Answered(r.status)
  /\ IF mode = "update"
     THEN IF AuthGate(ret'.ok)
          THEN /\ out' = Append(out, Msg("auth_ok"))
               /\ success_count' = 0
               /\ pc' = "loop"
               /\ UNCHANGED pending
          ELSE /\ out' = Append(out, Msg("auth_error"))
               /\ pending' = "exit"
               /\ pc' = "exit_ctx"
               /\ UNCHANGED success_count
     ELSE /\ pc' = "idle"
          /\ UNCHANGED <<out, pending, success_count>>
  /\ UNCHANGED <<inputs, session, caller, hops, i, attempted, status, nops,
                 reqs, calls, ok_touches, faulted, releases, late_reqs>>

\* Mutant: the guard of update_cv inverted.
HasToken_Inverted(x) == ~Truthy(x)

\* Mutant: update_cv without its guard.
HasToken_Always(x) == TRUE

\* Mutant: the guard of update_cv written "is not None".
HasToken_NotNone(x) == x.some

\* The guard of update_cv: if not self.xsrf : return False
HasToken(x) == Truthy(x)

\* Mutant: update counts every item.
Counted1_Always(ok, n) == n + 1

\* The per-item report of update and its count
ItemReport(ok, id) == Report(IF ok THEN "cv_ok" ELSE "cv_fail", id, <<>>, 0, 0)
Counted1(ok, n) == IF ok THEN n + 1 ELSE n

\* The id update passes to update_cv in the iteration at position k
NextId(k) == cv_ids[k]

\* Mutant: the loop of update ends at the first failed item.
NextPos_StopOnFailure(ok, k) == IF ok THEN k + 1 ELSE Len(cv_ids) + 1

\* for cv_id in cv_ids: the position after the one at k, whatever update_cv
\* returned there
NextPos(ok, k) == k + 1

\* update_cv up to client.post ( ... ), or to return False without a token
\* (and then the rest of the loop body of update)
UpdateCvBegin(id) ==
  /\ \/ mode = "update" /\ pc = "loop" /\ i <= Len(cv_ids) /\ id = NextId(i)
     \/ ClientMayCall
  /\ calls' = Bump(calls, "update_cv")
  /\ attempted' = Append(attempted, id)
  /\ nops' = Counted
  /\ IF HasToken(xsrf)
     THEN /\ cur' = [Op("update_cv", id, xsrf) EXCEPT !.sent.touch = 1,
                        !.sent_tok = xsrf]
          /\ reqs' = Bump(reqs, "touch")
          /\ late_reqs' = late_reqs + Late
          /\ hops' = 0
          /\ pc' = "wait_touch"
          /\ UNCHANGED <<ret, out, i>>
     ELSE /\ cur' = Op("update_cv", id, xsrf)
          /\ ret' = Ret("update_cv", FALSE, xsrf)
          /\ IF mode = "update"
             THEN /\ out' = Append(out, ItemReport(FALSE, id))
                  /\ i' = NextPos(FALSE, i)
             ELSE UNCHANGED <<out, i>>
          /\ UNCHANGED <<reqs, late_reqs, hops, pc>>
  /\ UNCHANGED <<inputs, session, caller, resp, success_count, pending,
                 status, ok_touches, faulted, releases>>

\* update_cv from the final response of the touch POST to its return (and
\* then the rest of the loop body of update)
UpdateCvReturn(r) ==
  /\ pc = "wait_touch"
  /\ r \in PostResponses
  /\ ~Followed(r)
  /\ resp' = r
  /\ ret' = Ret("update_cv", UpdateResult(r), xsrf)
  /\ cur' = Answered(r.status)
  /\ ok_touches' = IF r.status = 200 THEN ok_touches + 1 ELSE ok_touches
  /\ IF mode = "update"
     THEN /\ out' = Append(out, ItemReport(ret'.ok, cur.id))
          /\ success_count' = Counted1(ret'.ok, success_count)
          /\ i' = NextPos(ret'.ok, i)
          /\ pc' = "loop"
     ELSE /\ pc' = "idle"
          /\ UNCHANGED <<out, success_count, i>>
  /\ UNCHANGED <<inputs, session, caller, hops, attempted, pending, status,
                 nops, reqs, calls, faulted, releases, late_reqs>>

\* ---------------------------------------------------------- update, check
\* if success_count < len ( cv_ids ) : raise typer.Exit ( code = 1 )
Incomplete(n, total) == n < total

\* update after its for loop: the aggregate report and the exit decision
Summary ==
  /\ mode = "update"
  /\ pc = "loop"
  /\ i > Len(cv_ids)
  /\ out' = Append(out, Report("summary", "", <<>>, success_count, Len(cv_ids)))
  /\ pending' = IF Incomplete(success_count, Len(cv_ids)) THEN "exit" ELSE "none"
  /\ pc' = "exit_ctx"
  /\ UNCHANGED <<inputs, session, caller, cur, ret, hops, resp, loopvars,
                 status, nops, reqs, calls, ok_touches, faulted, releases,
                 late_reqs>>

\* Mutant: __exit__ leaves the client open.
CloseClient_Noop(c) == c

\* self.client.close ( )
CloseClient(c) == "closed"

\* __exit__: the with block is left, normally or by an exception; it closes
\* the client and returns None, so an exception in flight goes on.
ExitCtx ==
  /\ pc = "exit_ctx"
  /\ client' = CloseClient(client)
  /\ releases' = releases + 1
  /\ IF pending = "none"
     THEN pc' = "done" /\ status' = 0
     ELSE pc' = "except" /\ UNCHANGED status
  /\ UNCHANGED <<inputs, base_url, xsrf, caller, cur, ret, hops, resp,
                 loopvars, out, pending, nops, reqs, calls, ok_touches,
                 faulted, late_reqs>>

\* Mutant: the except clause lets a fault through.
Caught_OnlyExit(p) == p = "exit"

\* except Exception: what it catches. typer.Exit is click.exceptions.Exit,
\* a RuntimeError, so the clause catches it as it catches a fault.
Caught(p) == p \in {"exit", "fault"}

\* The except clause of update and of check: the error report, then
\* raise typer.Exit ( code = 1 ). An exception it does not catch leaves the
\* command: typer.Exit ( code = 1 ) ends the process with status 1, any
\* other exception ends it uncaught (status 2 here).
Except ==
  /\ pc = "except"
  /\ IF Caught(pending)
     THEN /\ out' = Append(out, Msg(IF mode = "update" THEN "unexpected"
                                                       ELSE "check_error"))
          /\ status' = 1
     ELSE /\ status' = IF pending = "exit" THEN 1 ELSE 2
          /\ UNCHANGED out
  /\ pc' = "done"
  /\ UNCHANGED <<inputs, session, caller, cur, ret, hops, resp, loopvars,
                 pending, nops, reqs, calls, ok_touches, faulted, releases,
                 late_reqs>>

\* A client caller leaves its with block without an exception.
ClientClose ==
  /\ mode = "client"
  /\ pc = "idle"
  /\ client' = CloseClient(client)
  /\ releases' = releases + 1
  /\ pc' = "done"
  /\ status' = 0
  /\ UNCHANGED <<inputs, base_url, xsrf, caller, cur, ret, hops, resp,
                 loopvars, out, pending, nops, reqs, calls, ok_touches,
                 faulted, late_reqs>>

Next ==
  \/ Construct
  \/ GetXsrfBegin
  \/ AuthBegin
  \/ \E id \in CvIds : UpdateCvBegin(id)
  \/ HttpRedirect
  \/ HttpTooManyRedirects
  \/ HttpFault
  \/ \E r \in GetResponses : GetXsrfReturn(r)
  \/ \E r \in PostResponses : AuthReturn(r)
  \/ \E r \in PostResponses : UpdateCvReturn(r)
  \/ Summary
  \/ ExitCtx
  \/ Except
  \/ ClientClose

Spec == Init /\ [][Next]_vars

\* The program is sequential and every call of the HTTP layer returns or
\* raises (a timeout is a fault), so a run that can take a step takes one.
FairSpec == Spec /\ WF_vars(Next)

TypeOK ==
  /\ mode \in {"update", "check", "client"}
  /\ pc \in {"start", "call_auth", "call_get", "idle", "wait_get",
             "wait_login", "wait_touch", "loop", "exit_ctx", "except", "done"}
  /\ client \in {"none", "open", "closed"}
  /\ pending \in {"none", "exit", "fault"}
  /\ status \in {-1, 0, 1, 2}
  /\ hops \in 0..MaxRedirects
  /\ i \in 1..(MaxCvs + 1)
  /\ success_count \in 0..MaxCvs
  /\ nops \in 0..MaxOps

\* ------------------------------------------------------------ properties
Flow == mode \in {"update", "check"}

\* The method called last has returned (it is not waiting for the HTTP layer
\* and no exception ended it).
Completed(name) ==
  cur.op = name /\ ret.op = name /\ ~InFlight /\ ~faulted

\* update printed that msg
Printed(msg) == \E k \in DOMAIN out : out[k].msg = msg

\* C1 as claimed: in update, update_cv is never called while the token is
\* unset.
C1_NeverCalledWithoutToken ==
  (mode = "update" /\ cur.op = "update_cv") => Truthy(cur.tok0)

\* C1 as amended: in update, no touch request is issued while the token is
\* unset: a call of update_cv sends its touch POST exactly when a token is
\* cached (it carries that token), and a call made without a token returns
\* False having sent nothing.
C1_NoTouchWithoutToken ==
  (mode = "update" /\ cur.op = "update_cv") =>
     /\ cur.sent.touch = (IF Truthy(cur.tok0) THEN 1 ELSE 0)
     /\ cur.sent.get = 0 /\ cur.sent.login = 0
     /\ pc = "wait_touch" => Truthy(xsrf) /\ cur.sent_tok = xsrf
     /\ ~Truthy(cur.tok0) => ret = Ret("update_cv", FALSE, cur.tok0)
     /\ (reqs.touch > 0 => Truthy(xsrf))

\* C1 witness: update called update_cv with no token cached, after auth
\* returned True.
C1_Witness ==
  /\ mode = "update"
  /\ cur.op = "update_cv"
  /\ ~Truthy(cur.tok0)
  /\ Printed("auth_ok")
  /\ reqs.touch = 0

\* C2: update_cv called with no token cached (None or '') returns False,
\* issues no request and leaves the session (base_url, client, xsrf) as it
\* was.
C2_NoTokenNoRequest ==
  [][(calls'.update_cv = calls.update_cv + 1 /\ ~Truthy(xsrf)) =>
        /\ ret' = Ret("update_cv", FALSE, xsrf)
        /\ reqs' = reqs
        /\ session' = session
        /\ ~InFlight'
        /\ hops' = hops]_vars

\* C2 witness: a caller called update_cv on a session whose token is the
\* empty string, and it returned False.
C2_Witness ==
  /\ mode = "client"
  /\ Completed("update_cv")
  /\ cur.tok0 = Some(<<>>)
  /\ ~ret.ok
  /\ cur.sent = Zero3

\* C3: a call of auth made with no token cached (so also every call on a
\* session on which get_xsrf was never called) issues exactly one GET, and
\* has issued it when it sends its one login POST; a call made with a token
\* cached issues no GET; every auth that returns has sent one login POST.
C3_OneImplicitFetch ==
  cur.op = "auth" =>
     /\ cur.sent.get = (IF Truthy(cur.tok0) THEN 0 ELSE 1)
     /\ cur.sent.login <= 1
     /\ cur.sent.touch = 0
     /\ cur.sent.login = 1 => cur.gets_at_login = cur.sent.get
     /\ pc = "wait_get" => cur.sent.login = 0
     /\ Completed("auth") => cur.sent.login = 1
     /\ calls.get_xsrf = 0 => ~Truthy(cur.tok0)

\* C3 witness: auth returned on a session on which get_xsrf had not been
\* called: one GET, then one POST.
C3_Witness ==
  /\ Completed("auth")
  /\ calls.get_xsrf = 1
  /\ calls.auth = 1
  /\ reqs = [get |-> 1, login |-> 1, touch |-> 0]
  /\ cur.gets_at_login = 1

\* C4 as claimed: auth returns True exactly when the server's answer to the
\* login POST has status 200 (so a redirect answer gives False).
C4_TrueIffAnswer200 ==
  Completed("auth") => (ret.ok <=> cur.first = 200)

\* C4 as amended: auth returns True exactly when the final response of the
\* login POST, the one the HTTP layer returns after following redirects,
\* has status 200; a final 3xx, 4xx or 5xx gives False.
C4_TrueIffFinal200 ==
  Completed("auth") =>
     /\ ret.ok <=> resp.status = 200
     /\ hops = 0 => cur.first = resp.status

\* C4 witness: the login endpoint answered with a redirect, the HTTP layer
\* followed it to a 200, and auth returned True.
C4_Witness ==
  /\ Completed("auth")
  /\ cur.first = 302
  /\ hops > 0
  /\ ret.ok

\* C5: in update, once auth has returned False no update_cv call and no
\* touch request is made, and the run ends with exit status 1.
C5_AuthFailureStops ==
  (mode = "update" /\ ret.op = "auth" /\ ~ret.ok) =>
     /\ calls.update_cv = 0
     /\ reqs.touch = 0
     /\ attempted = <<>>
     /\ pc \in {"exit_ctx", "except", "done"}
     /\ pc = "done" => status = 1

\* C5 witness: update ended after auth returned False.
C5_Witness ==
  /\ mode = "update"
  /\ pc = "done"
  /\ ret = Ret("auth", FALSE, xsrf)
  /\ ~faulted
  /\ status = 1

\* C6: an update that ends without a fault after auth returned True has
\* printed the aggregate report with the number of touch requests answered
\* 200 and the number of ids, and its exit status is 0 exactly when the
\* two are equal.
C6_CountAndStatus ==
  (mode = "update" /\ pc = "done" /\ ~faulted /\ Printed("auth_ok")) =>
     /\ \E k \in DOMAIN out :
          /\ out[k].msg = "summary"
          /\ out[k].n = ok_touches
          /\ out[k].total = Len(cv_ids)
     /\ success_count = ok_touches
     /\ status \in {0, 1}
     /\ status = 0 <=> ok_touches = Len(cv_ids)

\* C6 witness: two ids, one touch answered 200, the other not: exit status 1.
C6_Witness ==
  /\ mode = "update"
  /\ pc = "done"
  /\ ~faulted
  /\ Len(cv_ids) = 2
  /\ ok_touches = 1
  /\ reqs.touch = 2
  /\ status = 1

\* C7: update calls update_cv with the ids of cv_ids in input order, each
\* position once; a run in which auth returned True and no fault occurred
\* has called it for every position, whatever the earlier calls returned.
C7_EachOnceInOrder ==
  mode = "update" =>
     /\ Len(attempted) <= Len(cv_ids)
     /\ attempted = SubSeq(cv_ids, 1, Len(attempted))
     /\ calls.update_cv = Len(attempted)
     /\ reqs.touch <= Len(attempted)
     /\ (pc = "done" /\ ~faulted /\ Printed("auth_ok")) => attempted = cv_ids

\* C7 witness: the first of two ids failed and the second was still tried.
C7_Witness ==
  /\ mode = "update"
  /\ pc = "done"
  /\ ~faulted
  /\ Len(cv_ids) = 2
  /\ Len(out) >= 3
  /\ out[2].msg = "cv_fail"
  /\ out[3].msg = "cv_ok"
  /\ attempted = cv_ids

\* C8: in update and check, a client that has been acquired is eventually
\* closed, on every path out of the with block.
C8_EventuallyReleased ==
  (Flow /\ client = "open") ~> (client = "closed")

\* C8 witness: a fault ended update and the client is closed.
C8_Witness ==
  /\ mode = "update"
  /\ faulted
  /\ client = "closed"
  /\ releases = 1
  /\ pc = "done"

\* C9: a fault raised under get_xsrf, auth or update_cv is not handled in
\* the client (the method does not go on: its caller receives the fault);
\* update and check report it and end with exit status 1, so they end with
\* exit status 0 or 1 and never with an exception nobody caught.
C9_FaultsBecomeStatus1 ==
  /\ (Flow /\ pc = "done") => status \in {0, 1}
  /\ (Flow /\ faulted) =>
        /\ pc \in {"exit_ctx", "except", "done"}
        /\ pending = "fault"
        /\ pc = "done" =>
             /\ status = 1
             /\ out # <<>>
             /\ out[Len(out)].msg \in {"unexpected", "check_error"}
  /\ (mode = "client" /\ faulted) => (pc = "done" /\ status = 2)
  /\ status = 2 => mode = "client"

\* C9 witness: a fault under a request of update was reported and the run
\* ended with exit status 1.
C9_Witness ==
  /\ mode = "update"
  /\ faulted
  /\ reqs.touch > 0
  /\ cur.op = "update_cv"
  /\ pc = "done"
  /\ status = 1

\* C10: check ends with exit status 0 exactly when get_xsrf returned a token
\* (a non-empty value); with no _xsrf cookie in the response it ends with
\* exit status 1 and no exception leaves it.
C10_CheckStatus ==
  (mode = "check" /\ pc = "done") =>
     /\ status \in {0, 1}
     /\ status = 0 <=> (Completed("get_xsrf") /\ Truthy(ret.tok))
     /\ (Completed("get_xsrf") /\ ~resp.cookie.some) => status = 1

\* C10 witness: the response had no _xsrf cookie and check ended with 1.
C10_Witness ==
  /\ mode = "check"
  /\ pc = "done"
  /\ Completed("get_xsrf")
  /\ resp.cookie = None
  /\ status = 1

\* C11: update_cv called with a token cached issues exactly one touch POST
\* (and no other request), carrying that token, and returns True exactly
\* when the response it gets back has status 200.
C11_OneTouchTrueIff200 ==
  (cur.op = "update_cv" /\ Truthy(cur.tok0)) =>
     /\ cur.sent = [get |-> 0, login |-> 0, touch |-> 1]
     /\ cur.sent_tok = cur.tok0
     /\ Completed("update_cv") => (ret.ok <=> resp.status = 200)

\* C11 witness: a touch answered 403 made update_cv return False.
C11_Witness ==
  /\ Completed("update_cv")
  /\ Truthy(cur.tok0)
  /\ cur.sent.touch = 1
  /\ resp.status = 403
  /\ ~ret.ok

\* the sequence of n slashes
Slashes(n) == [k \in 1..n |-> "/"]

\* C12: the base_url a client stores is the URL it was given without its
\* trailing slashes: it does not end in a slash, and a client built from
\* the stored value would store the same value.
C12_NoTrailingSlash ==
  base_url.some =>
     /\ base_url.val = <<>> \/ base_url.val[Len(base_url.val)] # "/"
     /\ \E n \in 0..Len(arg_url.val) : arg_url.val = base_url.val \o Slashes(n)
     /\ rstrip(base_url.val) = base_url.val

\* C12 witness: a client built from "h/" stores "h".
C12_Witness ==
  /\ arg_url = Some(<<"h", "/">>)
  /\ base_url = Some(<<"h">>)

\* C13: in update, the except clause runs and prints its unexpected-error
\* report only in runs in which a fault was raised; a failed auth and a
\* failed update_cv are reported and counted, never thrown to it.
C13_HandlerOnlyOnFault ==
  (mode = "update" /\ Printed("unexpected")) => faulted

\* C14: xsrf changes only when get_xsrf stores the cookie of its response
\* (called directly, or by auth when no token is cached); auth called with
\* a token cached and update_cv leave xsrf as it was when they were called,
\* and after construction no step changes base_url.
C14_TokenSetOnlyByFetch ==
  [][/\ xsrf' # xsrf => (pc = "wait_get" /\ pc' # "wait_get" /\ xsrf' = resp'.cookie)
     /\ base_url' # base_url => pc = "start"
     /\ cur'.op = "update_cv" => xsrf' = cur'.tok0
     /\ (cur'.op = "auth" /\ Truthy(cur'.tok0)) => xsrf' = cur'.tok0]_vars

\* C14 witness: auth ran with a token cached, the login response carried
\* another _xsrf cookie, and the cached token is still the old one.
C14_Witness ==
  /\ Completed("auth")
  /\ cur.tok0 = Some(Tok1)
  /\ resp.cookie = Some(Tok2)
  /\ xsrf = Some(Tok1)

\* The token shown by the success report of check (none printed: <<>>)
Shown == IF out # <<>> /\ out[1].msg = "check_ok" THEN out[1].tok ELSE <<>>
IsPrefix(s, t) == Len(s) <= Len(t) /\ s = SubSeq(t, 1, Len(s))

\* C15 as claimed: the success report of check shows a proper prefix of
\* the token, never the whole token.
C15_ProperPrefix ==
  (mode = "check" /\ Printed("check_ok")) =>
     /\ IsPrefix(Shown, ret.tok.val)
     /\ Shown # ret.tok.val

\* C15 as amended: the success report of check shows the first 10
\* characters of the token: a proper prefix of a token longer than 10
\* characters, the whole token when it has 10 characters or fewer.
C15_FirstTenCharacters ==
  (mode = "check" /\ Printed("check_ok")) =>
     /\ Truthy(ret.tok)
     /\ IsPrefix(Shown, ret.tok.val)
     /\ Len(Shown) = (IF Len(ret.tok.val) < 10 THEN Len(ret.tok.val) ELSE 10)
     /\ Shown # ret.tok.val <=> Len(ret.tok.val) > 10

\* C15 witness: check got a token of 11 characters and showed 10 of them.
C15_Witness ==
  /\ mode = "check"
  /\ Printed("check_ok")
  /\ Len(ret.tok.val) = 11
  /\ Len(Shown) = 10
  /\ pc = "done"

\* C16: get_xsrf always stores the _xsrf cookie of its latest response and
\* returns what it stored, so a response without the cookie unsets a token
\* that was cached; update_cv called in a state without a token returns
\* False and sends nothing.
C16_FetchOverwrites ==
  [][/\ (pc = "wait_get" /\ pc' # "wait_get" /\ ~faulted') =>
          /\ xsrf' = resp'.cookie
          /\ ret' = Ret("get_xsrf", Truthy(xsrf'), xsrf')
     /\ (calls'.update_cv = calls.update_cv + 1 /\ ~Truthy(xsrf)) =>
          /\ ret'.op = "update_cv" /\ ~ret'.ok
          /\ reqs' = reqs]_vars

\* C16 witness: get_xsrf was called with a token cached, its response had
\* no _xsrf cookie, and the token is now unset.
C16_Witness ==
  /\ Completed("get_xsrf")
  /\ Truthy(cur.tok0)
  /\ resp.cookie = None
  /\ xsrf = None
  /\ ret.tok = None

\* In update, get_xsrf (called by auth) has returned without a token.
FetchedNoToken == mode = "update" /\ ret.op # "none" /\ ~Truthy(xsrf)

\* C17: in update, when the token fetch inside auth yields no token, auth
\* still sends its login POST, with an empty _xsrf field; if that POST is
\* answered 200 the run goes on, every update_cv returns False, no touch
\* request is sent, the count stays 0 and the exit status is 1.
C17_NoTokenRun ==
  FetchedNoToken =>
     /\ reqs.get = 1 /\ reqs.login = 1 /\ reqs.touch = 0
     /\ cur.op = "auth" => cur.sent_tok = Some(<<>>)
     /\ (ret.op = "auth" /\ resp.status = 200 /\ ~faulted) =>
           pc = "loop" /\ Printed("auth_ok")
     /\ cur.op = "update_cv" => ret = Ret("update_cv", FALSE, xsrf)
     /\ success_count = 0 /\ ok_touches = 0
     /\ ~Printed("cv_ok")
     /\ (pc = "done" /\ Printed("auth_ok")) =>
           /\ attempted = cv_ids
           /\ out[Len(out) - 1] = Report("summary", "", <<>>, 0, Len(cv_ids))
           /\ status = 1

\* C17 witness: no token, login answered 200, two ids tried, exit status 1
\* without a touch request.
C17_Witness ==
  /\ FetchedNoToken
  /\ pc = "done"
  /\ Printed("auth_ok")
  /\ Len(attempted) = 2
  /\ reqs = [get |-> 1, login |-> 1, touch |-> 0]
  /\ status = 1

\* C18: in update, a fault raised under update_cv ends the batch: no later
\* id is tried, the aggregate report is not printed, the client is closed,
\* and the exit status is 1 whatever the earlier items returned.
C18_FaultAbortsBatch ==
  (mode = "update" /\ faulted /\ cur.op = "update_cv") =>
     /\ pc \in {"exit_ctx", "except", "done"}
     /\ Len(attempted) = i
     /\ cur.id = cv_ids[i]
     /\ ~Printed("summary")
     /\ pc # "exit_ctx" => (client = "closed" /\ releases = 1)
     /\ pc = "done" => status = 1

\* C18 witness: the first of two ids was updated, the touch of the second
\* raised, and the run ended with exit status 1.
C18_Witness ==
  /\ mode = "update"
  /\ faulted
  /\ cur.op = "update_cv"
  /\ Len(cv_ids) = 2
  /\ i = 2
  /\ success_count = 1
  /\ pc = "done"
  /\ status = 1

\* C19: in update and check, the client is closed exactly once per client
\* built, and no request is issued once it is closed.
C19_ReleasedOnceNoLateRequest ==
  Flow =>
     /\ releases = (IF client = "closed" THEN 1 ELSE 0)
     /\ late_reqs = 0
     /\ client = "closed" => (~InFlight /\ pc \in {"except", "done"})
     /\ (pc = "done" /\ base_url.some) => client = "closed"
     /\ client = "none" => (reqs = Zero3 /\ ~base_url.some)

\* C19 witness: an update that sent all three kinds of request ended with
\* its client closed once.
C19_Witness ==
  /\ mode = "update"
  /\ pc = "done"
  /\ reqs.get = 1 /\ reqs.login = 1 /\ reqs.touch = 2
  /\ releases = 1
  /\ status = 0

\* C20: the only guard of update_cv is the token: called with a token
\* cached it sends its touch POST, whether or not auth was ever called or
\* returned True.
C20_TokenIsTheOnlyGuard ==
  [][(calls'.update_cv = calls.update_cv + 1 /\ Truthy(xsrf)) =>
        /\ reqs' = Bump(reqs, "touch")
        /\ pc' = "wait_touch"
        /\ cur'.sent_tok = xsrf]_vars

\* C20 witness: on a client on which auth was never called, update_cv sent
\* a touch POST and returned True.
C20_Witness ==
  /\ mode = "client"
  /\ calls.auth = 0
  /\ Completed("update_cv")
  /\ cur.sent.touch = 1
  /\ ret.ok

====
